---- MODULE Spec2Model ----
(***************************************************************************)
(* Photo Story: authorization-gated media delivery.                        *)
(*                                                                         *)
(* Model of backend/routes.ts: the access check pickAccessibleAppInstance, *)
(* the path helpers resolveUploadsFilePath and resolveSizedFilename, and   *)
(* the route GET /image/:mediaId.                                          *)
(*                                                                         *)
(* Strings are sequences of one-character strings, so that path.extname,   *)
(* path.basename, path.resolve and String.replace are computed the way     *)
(* Node computes them.  The character "U" stands for the directory name    *)
(* "uploads"; "-thumb" and "-medium" are the two suffixes the code         *)
(* inserts, kept as one element each.                                      *)
(*                                                                         *)
(* The route is followed step by step (pc), one step per await or          *)
(* filesystem probe.  Two specifications share its actions: Spec starts    *)
(* from a store with one tenant of every policy and one user of every      *)
(* group membership, SpecMedia from the open tenant with one media whose   *)
(* stored name and files range over the bounded sets.                      *)
(*                                                                         *)
(* Model of frontend/AuthorizedImage.tsx: the component instances, the     *)
(* module-level imageCache, the fetches its effect starts and the object   *)
(* URLs it creates.  A render and the effects React runs after it are two  *)
(* steps; a fetch and the blob read settle in one.  SpecClient runs the    *)
(* components over an idle server.                                         *)
(***************************************************************************)
EXTENDS Integers, Sequences, FiniteSets, TLC

\* ------------------------------------------------------------------------
\* Bounds
\* ------------------------------------------------------------------------

\* longest stored media filename in the media-rich world
MaxNameLen == 4

\* number of user groups
NumGroups == 2

\* component instances of AuthorizedImage on the page
NumComps == 2

\* comments and essays created in a run
MaxTexts == 1

\* longest src and token of the instances that are compared for their keys
MaxKeyLen == 2

\* pages of posts the tenant has
MaxPages == 3

\* calls of listPosts in a run
MaxListRequests == 3

\* network fetches the page may issue
MaxFetches == 2

\* characters a stored filename is made of
Chars == {"p", ".", "/"}

Groups == 1..NumGroups

SeqsUpTo(S, n) == UNION {[1..k -> S] : k \in 0..n}

\* ------------------------------------------------------------------------
\* String helpers (JavaScript String.prototype)
\* ------------------------------------------------------------------------

startsWith(s, prefix) ==
    /\ Len(prefix) <= Len(s)
    /\ SubSeq(s, 1, Len(prefix)) = prefix

endsWith(s, suffix) ==
    /\ Len(suffix) <= Len(s)
    /\ SubSeq(s, Len(s) - Len(suffix) + 1, Len(s)) = suffix

\* positions at which pattern occurs in s
Occurrences(s, pattern) ==
    {i \in 1..(Len(s) - Len(pattern) + 1) :
        SubSeq(s, i, i + Len(pattern) - 1) = pattern}

\* s.replace(pattern, replacement) with a string pattern: first occurrence only
replace(s, pattern, replacement) ==
    IF Occurrences(s, pattern) = {}
    THEN s
    ELSE LET i == CHOOSE k \in Occurrences(s, pattern) :
                      \A j \in Occurrences(s, pattern) : k <= j
         IN  SubSeq(s, 1, i - 1) \o replacement
                 \o SubSeq(s, i + Len(pattern), Len(s))

\* ------------------------------------------------------------------------
\* Path helpers (Node's posix path module)
\* ------------------------------------------------------------------------

sep == "/"

RECURSIVE Split(_)
\* s.split("/")
Split(s) ==
    IF \A i \in 1..Len(s) : s[i] # sep
    THEN <<s>>
    ELSE LET i == CHOOSE k \in 1..Len(s) :
                      s[k] = sep /\ \A j \in 1..(k - 1) : s[j] # sep
         IN  <<SubSeq(s, 1, i - 1)>> \o Split(SubSeq(s, i + 1, Len(s)))

RECURSIVE Join(_)
\* segments.join("/")
Join(segs) ==
    IF segs = <<>> THEN <<>>
    ELSE IF Len(segs) = 1 THEN segs[1]
    ELSE segs[1] \o <<sep>> \o Join(Tail(segs))

RECURSIVE normalizeString(_, _)
\* resolution of "", "." and ".." segments of an absolute path;
\* ".." at the root stays at the root
normalizeString(segs, stack) ==
    IF segs = <<>> THEN stack
    ELSE LET h == Head(segs) IN
         IF h = <<>> \/ h = <<".">>
         THEN normalizeString(Tail(segs), stack)
         ELSE IF h = <<".", ".">>
         THEN normalizeString(Tail(segs),
                  IF stack = <<>> THEN <<>>
                  ELSE SubSeq(stack, 1, Len(stack) - 1))
         ELSE normalizeString(Tail(segs), Append(stack, h))

\* path.resolve(from, to), from being absolute
pathResolve(from, to) ==
    LET joined == IF to # <<>> /\ to[1] = sep
                  THEN to
                  ELSE from \o <<sep>> \o to
    IN  <<sep>> \o Join(normalizeString(Split(joined), <<>>))

\* the path without its trailing slashes
RECURSIVE StripTrailingSep(_)
StripTrailingSep(p) ==
    IF p # <<>> /\ p[Len(p)] = sep
    THEN StripTrailingSep(SubSeq(p, 1, Len(p) - 1))
    ELSE p

\* the last portion of a path, trailing slashes ignored
LastPortion(p) ==
    LET segs == Split(StripTrailingSep(p)) IN segs[Len(segs)]

\* path.extname(p)
extname(p) ==
    LET base == LastPortion(p)
        dots == {i \in 1..Len(base) : base[i] = "."}
    IN  IF dots = {} THEN <<>>
        ELSE LET startDot == CHOOSE i \in dots : \A j \in dots : j <= i IN
             IF startDot = 1 \/ base = <<".", ".">>
             THEN <<>>
             ELSE SubSeq(base, startDot, Len(base))

\* path.basename(p, suffix)
basename(p, suffix) ==
    LET base == LastPortion(p) IN
    IF suffix # <<>> /\ Len(suffix) <= Len(p)
    THEN IF suffix = p THEN <<>>
         ELSE IF endsWith(base, suffix) /\ base # suffix
         THEN SubSeq(base, 1, Len(base) - Len(suffix))
         ELSE base
    ELSE base

\* ------------------------------------------------------------------------
\* File-serving helpers
\* ------------------------------------------------------------------------

\* env.UPLOADS_DIR: the uploads root, "/uploads"
UploadsRootDir == <<"/", "U">>

\* getUploadsRootDir()
getUploadsRootDir == UploadsRootDir

\* a null or empty string
NullString == <<>>

\* resolveUploadsFilePath(uploadsPath): the absolute path, or null when it
\* is neither under the root nor the root itself
resolveUploadsFilePath(uploadsPath) ==
    LET root == getUploadsRootDir
        abs == pathResolve(root, uploadsPath)
        rootResolved == pathResolve(root, <<>>)
    IN  IF ~startsWith(abs, rootResolved \o <<sep>>) /\ abs # rootResolved
        THEN NullString
        ELSE abs

\* the values of the query parameter size: absent, or a string
NoSize == "undefined"
Sizes == {NoSize, "", "large", "thumbnail", "medium", "original"}

\* resolveSizedFilename(filename, size)
resolveSizedFilename(filename, size) ==
    LET ext == extname(filename)
        name == basename(filename, ext)
    IN  IF size = NoSize \/ size = "" \/ size = "large" THEN filename
        ELSE IF size = "thumbnail" THEN name \o <<"-thumb">> \o ext
        ELSE IF size = "medium" THEN name \o <<"-medium">> \o ext
        ELSE filename

\* abs lies under the directory root
isUnder(abs, root) == startsWith(abs, root \o <<sep>>)

\* normalizeUploadsPath(rawFilename), of utils/uploadsSigning: the name with
\* its empty and "." segments removed, or null when the name is empty once
\* normalized, has a parent-directory segment, or resolves outside the root
normalizeUploadsPath(rawFilename) ==
    LET segs == Split(rawFilename)
        kept == SelectSeq(segs, LAMBDA x : x # <<>> /\ x # <<".">>)
    IN  IF \/ kept = <<>>
           \/ \E i \in 1..Len(segs) : segs[i] = <<".", ".">>
           \/ ~isUnder(pathResolve(UploadsRootDir, rawFilename),
                       UploadsRootDir)
        THEN NullString
        ELSE Join(kept)

\* ------------------------------------------------------------------------
\* Stores (Prisma models AppInstance, UserGroup, PhotoPost, Media), the
\* uploads directory and the process environment
\* ------------------------------------------------------------------------

VARIABLES
    appInstance,  \* rows of AppInstance: id, slug, type, isActive, config
    user,         \* ids of the users the authentication middleware knows
    userGroup,    \* rows of UserGroup: userId, groupId
    photoPost,    \* rows of PhotoPost: id, appInstanceId, mediaId, title
    media,        \* rows of Media: id, filename, url
    storage,      \* absolute paths of the files under the uploads root
    env           \* UPLOADS_SERVE_STRATEGY, UPLOADS_ACCEL_REDIRECT_PREFIX

\* GET /image/:mediaId, one request at a time
VARIABLES
    pc,                 \* the handler's position
    req,                \* slug, authUser, mediaId, size
    access,             \* what pickAccessibleAppInstance returned
    safeFilename,
    requestedFilename,
    requestedPath,
    fallbackPath,
    fileToServe,
    absPath,
    res                 \* status, message, headers, file sent

\* AuthorizedImage.tsx
VARIABLES
    comps,       \* per instance: mounted, props, resolvedSrc, effects pending
    imageCache,  \* the module-level Map, cache key -> object URL
    runs,        \* every run() started so far, in the order of their fetches
    created,     \* number of URL.createObjectURL calls
    revoked      \* object URLs given to URL.revokeObjectURL

\* the comment and essay routes, one request at a time
VARIABLES
    photoComment,        \* rows of PhotoComment: id, postId, userId
    photoEssay,          \* rows of PhotoEssay: id, postId, userId
    photoCommentReport,  \* rows of PhotoCommentReport: commentId, reporterId
    photoEssayReport,    \* rows of PhotoEssayReport: essayId, reporterId
    textIds,             \* number of ids minted for comments and essays
    textReq,             \* the last request: route, slug, authUser, ids
    textRes              \* its response: status, message, rows returned

\* PhotoStoryPageClient.tsx
VARIABLES
    gallery,       \* the state of the page: page, posts, meta, isLoading,
                   \* notFound, needsLogin; its token; whether the effect
                   \* of the last render is pending; whether it was left
    listRequests   \* the calls of api.apps.listPosts: page, state, order

stores == <<appInstance, user, userGroup, photoPost, media, storage, env>>
locals == <<access, safeFilename, requestedFilename, requestedPath,
            fallbackPath, fileToServe, absPath>>
client == <<comps, imageCache, runs, created, revoked>>
server == <<stores, pc, req, locals, res>>
texts == <<photoComment, photoEssay, photoCommentReport, photoEssayReport,
           textIds, textReq, textRes>>
pageClient == <<gallery, listRequests>>
rest == <<texts, pageClient>>
vars == <<server, client, rest>>

\* ---- AppInstance.config, a Json value ----------------------------------

\* config.allowedGroupIds: absent, a string, or an array of group ids
UndefinedValue == [type |-> "undefined", items |-> {}]
StringValue == [type |-> "string", items |-> {}]
ArrayValue(S) == [type |-> "array", items |-> S]

AllowedGroupIdsValues ==
    {UndefinedValue, StringValue} \cup {ArrayValue(S) : S \in SUBSET Groups}

\* config is null, or an object
NullConfig == [isNull |-> TRUE, allowedGroupIds |-> UndefinedValue]
ObjectConfig(v) == [isNull |-> FALSE, allowedGroupIds |-> v]

Configs == {NullConfig} \cup {ObjectConfig(v) : v \in AllowedGroupIdsValues}

\* Array.isArray(v)
isArray(v) == v.type = "array"

\* ---- AppInstance rows --------------------------------------------------

\* a row of AppInstance; the id is the number the slug is written as
Tenant(slug, type, isActive, config) ==
    [id |-> slug, slug |-> slug, type |-> type,
     isActive |-> isActive, config |-> config]

\* a slug no tenant was minted under
UnknownSlug == 0

\* the null app
NullApp == Tenant(UnknownSlug, "null", FALSE, NullConfig)

\* prisma.appInstance.findUnique({ where: { slug } })
findUniqueAppInstance(slug) ==
    IF \E a \in appInstance : a.slug = slug
    THEN CHOOSE a \in appInstance : a.slug = slug
    ELSE NullApp

\* ---- Callers -----------------------------------------------------------

Roles == {"ADMIN", "EDITOR", "USER"}

\* req.user when the request carries no credential
NoUser == [present |-> FALSE, id |-> 0, role |-> "none"]

AuthUser(id, role) == [present |-> TRUE, id |-> id, role |-> role]

\* prisma.userGroup.findMany({ where: { userId }, select: { groupId } })
findManyUserGroupIds(userId) ==
    {g.groupId : g \in {r \in userGroup : r.userId = userId}}

\* ---- Access check ------------------------------------------------------

\* the allowedGroupIds of a result that carries none
NoGroupIds == [defined |-> FALSE, items |-> {}]

isPhotoStory_AnyType(app) == TRUE

\* app.type === "PHOTO_STORY"
isPhotoStory(app) == app.type = "PHOTO_STORY"

isPrivileged_OnlyAdmin(authUser) == authUser.role = "ADMIN"

\* authUser?.role === "ADMIN" || authUser?.role === "EDITOR"
isPrivileged(authUser) == authUser.role = "ADMIN" \/ authUser.role = "EDITOR"

isHidden_ActiveIgnored(app, authUser) == FALSE

\* !isPrivileged && !app.isActive
isHidden(app, authUser) == ~isPrivileged(authUser) /\ ~app.isActive

allowedGroupIdsOf_NoArrayCheck(config) ==
    IF config.isNull \/ config.allowedGroupIds.type = "undefined"
    THEN {}
    ELSE IF config.allowedGroupIds.type = "string"
    THEN {0}
    ELSE config.allowedGroupIds.items

\* Array.isArray(config?.allowedGroupIds) ? config.allowedGroupIds : []
allowedGroupIdsOf(config) ==
    IF ~config.isNull /\ isArray(config.allowedGroupIds)
    THEN config.allowedGroupIds.items
    ELSE {}

hasAccess_Every(allowedGroupIds, userGroupIds) ==
    \A id \in allowedGroupIds : id \in userGroupIds

\* allowedGroupIds.some((id) => userGroupIds.includes(id))
hasAccess(allowedGroupIds, userGroupIds) ==
    \E id \in allowedGroupIds : id \in userGroupIds

\* pickAccessibleAppInstance(slug, authUser); lookups counts the calls of
\* prisma.userGroup.findMany
pickAccessibleAppInstance(slug, authUser) ==
    LET app == findUniqueAppInstance(slug)
        allowedGroupIds == allowedGroupIdsOf(app.config)
        groupIds == [defined |-> TRUE, items |-> allowedGroupIds]
    IN  IF app = NullApp
        THEN [app |-> NullApp, allowed |-> FALSE,
              allowedGroupIds |-> NoGroupIds, lookups |-> 0]
        ELSE IF ~isPhotoStory(app)
        THEN [app |-> NullApp, allowed |-> FALSE,
              allowedGroupIds |-> NoGroupIds, lookups |-> 0]
        ELSE IF isHidden(app, authUser)
        THEN [app |-> NullApp, allowed |-> FALSE,
              allowedGroupIds |-> NoGroupIds, lookups |-> 0]
        ELSE IF allowedGroupIds = {} \/ isPrivileged(authUser)
        THEN [app |-> app, allowed |-> TRUE,
              allowedGroupIds |-> groupIds, lookups |-> 0]
        ELSE IF ~authUser.present
        THEN [app |-> app, allowed |-> FALSE,
              allowedGroupIds |-> groupIds, lookups |-> 0]
        ELSE [app |-> app,
              allowed |-> hasAccess(allowedGroupIds,
                                    findManyUserGroupIds(authUser.id)),
              allowedGroupIds |-> groupIds, lookups |-> 1]

\* ------------------------------------------------------------------------
\* GET /image/:mediaId
\* ------------------------------------------------------------------------

\* a media id no Media row carries
UnknownMediaId == "m0"

\* fs.existsSync(p): p is a file, or a directory that holds a file
existsSync(p) ==
    \/ p \in storage
    \/ \E f \in storage : startsWith(f, p \o <<sep>>)

\* the response before anything was written to it
NoResponse == [status |-> 0, message |-> "", cacheControl |-> "",
               accelRedirect |-> NullString, sentFile |-> NullString]

\* res.status(code).json({ message })
Json(code, message) == [NoResponse EXCEPT !.status = code, !.message = message]

findFirstPhotoPost_AnyTenant(appInstanceId, mediaId) ==
    {p \in photoPost : p.mediaId = mediaId}

\* prisma.photoPost.findFirst({ where: { appInstanceId, mediaId } })
findFirstPhotoPost(appInstanceId, mediaId) ==
    {p \in photoPost : p.appInstanceId = appInstanceId /\ p.mediaId = mediaId}

\* include: { media: true }
mediaOf(mediaId) == CHOOSE m \in media : m.id = mediaId

\* post.media.filename || post.media.url.replace("/uploads/", "")
rawFilenameOf(m) ==
    IF m.filename # NullString
    THEN m.filename
    ELSE replace(m.url, <<sep, "U", sep>>, <<>>)

isInvalidFilename_Never(safe) == FALSE

\* !safeFilename
isInvalidFilename(safe) == safe = NullString

accelPrefix_Raw(rawPrefix) == rawPrefix

\* the prefix with a leading and a trailing slash
accelPrefix(rawPrefix) ==
    LET withLeadingSlash == IF startsWith(rawPrefix, <<sep>>)
                            THEN rawPrefix
                            ELSE <<sep>> \o rawPrefix
    IN  IF endsWith(withLeadingSlash, <<sep>>)
        THEN withLeadingSlash
        ELSE withLeadingSlash \o <<sep>>

\* the request arrives; optionalAuthenticateToken has set req.user
ImgRequest ==
    /\ pc = "idle"
    /\ \E slug \in {a.slug : a \in appInstance} \cup {UnknownSlug},
          authUser \in {NoUser}
                          \cup {AuthUser(u, r) : u \in user, r \in Roles},
          mediaId \in {m.id : m \in media} \cup {UnknownMediaId},
          size \in Sizes :
              req' = [slug |-> slug, authUser |-> authUser,
                      mediaId |-> mediaId, size |-> size]
    /\ access' = [app |-> NullApp, allowed |-> FALSE,
                  allowedGroupIds |-> NoGroupIds, lookups |-> 0]
    /\ safeFilename' = NullString
    /\ requestedFilename' = NullString
    /\ requestedPath' = NullString
    /\ fallbackPath' = NullString
    /\ fileToServe' = NullString
    /\ absPath' = NullString
    /\ res' = NoResponse
    /\ pc' = "auth"
    /\ UNCHANGED <<client, rest, stores>>

isDenied_AppOnly(result) == result.app = NullApp

\* !app || !allowed
isDenied(result) == result.app = NullApp \/ ~result.allowed

appNotFound_OrForbidden(result) ==
    IF result.app = NullApp
    THEN Json(404, "App not found")
    ELSE Json(403, "Forbidden")

\* res.status(404).json({ message: "App not found" }), whatever the access
\* check returned
appNotFound(result) == Json(404, "App not found")

\* const { app, allowed } = await pickAccessibleAppInstance(slug, authUser)
ImgAuthorize ==
    /\ pc = "auth"
    /\ access' = pickAccessibleAppInstance(req.slug, req.authUser)
    /\ IF isDenied(access')
       THEN /\ res' = appNotFound(access')
            /\ pc' = "done"
       ELSE /\ res' = res
            /\ pc' = "lookup"
    /\ UNCHANGED <<client, rest, stores, req, safeFilename,
                   requestedFilename, requestedPath, fallbackPath,
                   fileToServe, absPath>>

\* the media lookup scoped to the tenant, then the filename and the two paths
ImgLookup ==
    /\ pc = "lookup"
    /\ LET posts == findFirstPhotoPost(access.app.id, req.mediaId)
           rawFilename == rawFilenameOf(mediaOf(req.mediaId))
           safe == normalizeUploadsPath(rawFilename)
           requested == resolveSizedFilename(safe, req.size)
       IN  IF posts = {}
           THEN /\ res' = Json(404, "Image not found")
                /\ pc' = "done"
                /\ UNCHANGED <<safeFilename, requestedFilename,
                               requestedPath, fallbackPath>>
           ELSE IF isInvalidFilename(safe)
           THEN /\ res' = Json(400, "Invalid media filename")
                /\ pc' = "done"
                /\ safeFilename' = safe
                /\ UNCHANGED <<requestedFilename, requestedPath, fallbackPath>>
           ELSE /\ safeFilename' = safe
                /\ requestedFilename' = requested
                /\ requestedPath' = resolveUploadsFilePath(requested)
                /\ fallbackPath' = resolveUploadsFilePath(safe)
                /\ IF requestedPath' = NullString \/ fallbackPath' = NullString
                   THEN /\ res' = Json(400, "Invalid resolved file path")
                        /\ pc' = "done"
                   ELSE /\ res' = res
                        /\ pc' = "probe1"
    /\ UNCHANGED <<client, rest, stores, req, access, fileToServe, absPath>>

\* const fileToServe = fs.existsSync(requestedPath) ? ... : ...
ImgProbe1 ==
    /\ pc = "probe1"
    /\ fileToServe' = IF existsSync(requestedPath)
                      THEN requestedFilename
                      ELSE safeFilename
    /\ pc' = "probe2"
    /\ UNCHANGED <<client, rest, stores, req, access, safeFilename,
                   requestedFilename, requestedPath, fallbackPath, absPath,
                   res>>

\* const absPath = fs.existsSync(requestedPath) ? ... : ...
ImgProbe2 ==
    /\ pc = "probe2"
    /\ absPath' = IF existsSync(requestedPath)
                  THEN requestedPath
                  ELSE fallbackPath
    /\ pc' = "probe3"
    /\ UNCHANGED <<client, rest, stores, req, access, safeFilename,
                   requestedFilename, requestedPath, fallbackPath,
                   fileToServe, res>>

\* if (!fs.existsSync(absPath)) 404
ImgProbe3 ==
    /\ pc = "probe3"
    /\ IF ~existsSync(absPath)
       THEN /\ res' = Json(404, "File not found")
            /\ pc' = "done"
       ELSE /\ res' = res
            /\ pc' = "deliver"
    /\ UNCHANGED <<client, rest, stores, req, locals>>

setCacheControl_Public(r) == [r EXCEPT !.cacheControl = "public, max-age=300"]

\* res.setHeader("Cache-Control", "private, max-age=300")
setCacheControl(r) == [r EXCEPT !.cacheControl = "private, max-age=300"]

\* Cache-Control, then X-Accel-Redirect or res.sendFile, under the
\* environment e; a path that sendFile does not find, or finds to be a
\* directory, is answered 404 by the framework
delivered(e) ==
    LET cached == setCacheControl(res)
        target == pathResolve(getUploadsRootDir, fileToServe)
    IN  IF e.UPLOADS_SERVE_STRATEGY = "accel"
        THEN [cached EXCEPT
                 !.accelRedirect =
                     accelPrefix(e.UPLOADS_ACCEL_REDIRECT_PREFIX)
                         \o fileToServe,
                 !.status = 200]
        ELSE IF target \in storage
        THEN [cached EXCEPT !.sentFile = target, !.status = 200]
        ELSE [cached EXCEPT !.status = 404]

ImgDeliver_Unlinks ==
    /\ pc = "deliver"
    /\ res' = delivered(env)
    /\ pc' = "done"
    /\ storage' = storage \ {absPath}
    /\ UNCHANGED <<client, rest, appInstance, user, userGroup, photoPost,
                   media, env, req, locals>>

ImgDeliver ==
    /\ pc = "deliver"
    /\ res' = delivered(env)
    /\ pc' = "done"
    /\ UNCHANGED <<client, rest, stores, req, locals>>

\* catch (error): a query of prisma rejects inside
\* pickAccessibleAppInstance or in photoPost.findFirst, and nothing after it
\* runs
ImgError ==
    /\ pc \in {"auth", "lookup"}
    /\ res' = Json(500, "Failed to serve image")
    /\ pc' = "failed"
    /\ UNCHANGED <<client, rest, stores, req, locals>>

\* ------------------------------------------------------------------------
\* AuthorizedImage
\* ------------------------------------------------------------------------

Comps == 1..NumComps

\* the locators the page shows
Srcs == {<<"a">>, <<"b">>}

\* the token prop: undefined, null, or a string
UndefinedToken == [kind |-> "undefined", value |-> <<>>]
NullToken == [kind |-> "null", value |-> <<>>]
StringToken(v) == [kind |-> "string", value |-> v]

Tokens ==
    {UndefinedToken, NullToken, StringToken(<<>>), StringToken(<<"t">>)}

isFalsy_EmptyIsPresent(token) == token.kind # "string"

\* !token
isFalsy(token) == token.kind # "string" \/ token.value = <<>>

\* the transparent GIF the state starts from when there is a token
Placeholder == <<"data:">>

\* the cacheKey of a render without token
NullKey == <<>>

\* useMemo: null without token, else `${src}|${token}`
cacheKeyOf(src, token) ==
    IF isFalsy(token)
    THEN NullKey
    ELSE src \o <<"|">> \o token.value

\* useState(token ? placeholder : src)
initialResolvedSrc(src, token) ==
    IF isFalsy(token) THEN src ELSE Placeholder

\* the n-th URL that URL.createObjectURL returns
ObjectUrl(n) == <<"blob:", ToString(n)>>

\* new Map()
EmptyCache == [k \in {} |-> <<>>]

cacheHas_Never(cache, key) == FALSE

\* imageCache.has(cacheKey)
cacheHas(cache, key) == key \in DOMAIN cache

\* imageCache.set(cacheKey, objectUrl)
cacheSet(cache, key, objectUrl) ==
    [k \in DOMAIN cache \cup {key} |->
        IF k = key THEN objectUrl ELSE cache[k]]

\* a slot of the page with no instance in it
Unmounted ==
    [mounted |-> FALSE, src |-> <<>>, token |-> UndefinedToken,
     resolvedSrc |-> <<>>, dirty |-> FALSE, run |-> 0]

\* the ways the fetch of a run ends: a response that is ok, whose blob is
\* read or not, a response that is not ok, a rejected fetch
Outcomes == {"ok", "notOk", "networkError", "blobError"}

\* cancelled = true in the closure of the effect that started run r
cancel(rs, r) ==
    IF r = 0 THEN rs ELSE [rs EXCEPT ![r].cancelled = TRUE]

\* the runs that have settled
Settled(rs) == {q \in 1..Len(rs) : rs[q].state # "pending"}

\* a parent renders an instance for the first time
Mount ==
    \E i \in Comps, src \in Srcs, token \in Tokens :
        /\ ~comps[i].mounted
        /\ comps' = [comps EXCEPT ![i] =
               [mounted |-> TRUE, src |-> src, token |-> token,
                resolvedSrc |-> initialResolvedSrc(src, token),
                dirty |-> TRUE, run |-> 0]]
        /\ UNCHANGED <<server, rest, imageCache, runs, created, revoked>>

\* the parent renders the instance again with other props; the effects of
\* the earlier render have run
Render ==
    \E i \in Comps, src \in Srcs, token \in Tokens :
        /\ comps[i].mounted
        /\ ~comps[i].dirty
        /\ <<src, token>> # <<comps[i].src, comps[i].token>>
        /\ comps' = [comps EXCEPT ![i].src = src, ![i].token = token,
                                  ![i].dirty = TRUE]
        /\ UNCHANGED <<server, rest, imageCache, runs, created, revoked>>

\* after the render: the cleanup of the effect of the earlier render, then
\* the two effects; the second one starts run() when the cache has no entry
Effects ==
    \E i \in Comps :
        LET c == comps[i]
            key == cacheKeyOf(c.src, c.token)
            cleaned == cancel(runs, c.run)
        IN  /\ c.mounted
            /\ c.dirty
            /\ IF isFalsy(c.token)
               THEN /\ comps' = [comps EXCEPT ![i].resolvedSrc = c.src,
                                              ![i].dirty = FALSE,
                                              ![i].run = 0]
                    /\ runs' = cleaned
               ELSE IF cacheHas(imageCache, key)
               THEN /\ comps' = [comps EXCEPT
                                    ![i].resolvedSrc = imageCache[key],
                                    ![i].dirty = FALSE,
                                    ![i].run = 0]
                    /\ runs' = cleaned
               ELSE /\ Len(runs) < MaxFetches
                    /\ comps' = [comps EXCEPT ![i].dirty = FALSE,
                                              ![i].run = Len(runs) + 1]
                    /\ runs' = Append(cleaned,
                           [comp |-> i, src |-> c.src, token |-> c.token,
                            cacheKey |-> key, cancelled |-> FALSE,
                            state |-> "pending", objectUrl |-> <<>>,
                            settled |-> Settled(runs)])
            /\ UNCHANGED <<server, rest, imageCache, created, revoked>>

cacheAfter_Always(cache, outcome, key, objectUrl) ==
    cacheSet(cache, key, objectUrl)

\* the cache after run r has ended in outcome
cacheAfter(cache, outcome, key, objectUrl) ==
    IF outcome = "ok" THEN cacheSet(cache, key, objectUrl) ELSE cache

\* what run r hands to setResolvedSrc when it ends in outcome
resolvedAfter(outcome, src, objectUrl) ==
    IF outcome = "ok" THEN objectUrl ELSE src

\* the fetch of a run settles and run() goes on to its end, through the
\* try or through the catch
Settle ==
    \E r \in 1..Len(runs), outcome \in Outcomes :
        LET run == runs[r]
            objectUrl == ObjectUrl(created + 1)
        IN  /\ run.state = "pending"
            /\ created' = IF outcome = "ok" THEN created + 1 ELSE created
            /\ imageCache' =
                   cacheAfter(imageCache, outcome, run.cacheKey, objectUrl)
            /\ comps' =
                   IF run.cancelled
                   THEN comps
                   ELSE [comps EXCEPT ![run.comp].resolvedSrc =
                            resolvedAfter(outcome, run.src, objectUrl)]
            /\ runs' = [runs EXCEPT
                   ![r].state = IF outcome = "ok" THEN "ok" ELSE "failed",
                   ![r].objectUrl = IF outcome = "ok" THEN objectUrl
                                    ELSE <<>>]
            /\ UNCHANGED <<server, rest, revoked>>

\* the instance leaves the page: the cleanup of its effect
Unmount ==
    \E i \in Comps :
        /\ comps[i].mounted
        /\ comps' = [comps EXCEPT ![i] = Unmounted]
        /\ runs' = cancel(runs, comps[i].run)
        /\ UNCHANGED <<server, rest, imageCache, created, revoked>>

\* ------------------------------------------------------------------------
\* Comments and essays
\* ------------------------------------------------------------------------

\* a post id and a comment or essay id no row carries
UnknownPostId == 0
UnknownTextId == 0

\* the callers authenticateToken lets through, and those
\* optionalAuthenticateToken lets through
Authenticated == {AuthUser(u, r) : u \in user, r \in Roles}
Anyone == Authenticated \cup {NoUser}

\* the values of the path parameters :slug, :id / :postId, :commentId /
\* :essayId
SlugParams == {a.slug : a \in appInstance} \cup {UnknownSlug}
PostIdParams == {p.id : p \in photoPost} \cup {UnknownPostId}
TextIdParams == 0..MaxTexts

TextRequest(route, slug, authUser, postId, textId) ==
    [route |-> route, slug |-> slug, authUser |-> authUser,
     postId |-> postId, textId |-> textId]

\* res.status(code).json({ message })
TextJson(code, message) == [status |-> code, message |-> message, rows |-> {}]

\* res.status(code).json of the rows found or written; res.status(204).send()
TextData(code, rows) == [status |-> code, message |-> "", rows |-> rows]

\* prisma.photoPost.findFirst({ where: { id, appInstanceId: app.id } })
findFirstPostOfApp(id, appInstanceId) ==
    {p \in photoPost : p.id = id /\ p.appInstanceId = appInstanceId}

\* prisma.photoComment.findMany({ where: { postId: id } })
findManyComments(id) == {c \in photoComment : c.postId = id}

\* prisma.photoEssay.findMany({ where: { postId: id } })
findManyEssays(id) == {e \in photoEssay : e.postId = id}

\* !row || row.postId !== postId, for the result of findUnique({ id })
isMissing(found, postId) == \A row \in found : row.postId # postId

mayDelete_Anyone(row, authUser) == TRUE

\* isAuthor || isAdmin
mayDelete(row, authUser) ==
    \/ row.userId = authUser.id
    \/ authUser.role = "ADMIN" \/ authUser.role = "EDITOR"

\* the request of a router that is waiting for one
NoTextRequest ==
    TextRequest("none", UnknownSlug, NoUser, UnknownPostId, UnknownTextId)

\* no request is being handled
Waiting == textReq = NoTextRequest

\* the response was sent; the router waits for the next request
TextClose ==
    /\ ~Waiting
    /\ textReq' = NoTextRequest
    /\ textRes' = TextJson(0, "")
    /\ UNCHANGED <<server, client, pageClient, photoComment, photoEssay,
                   photoCommentReport, photoEssayReport, textIds>>

\* GET /posts/:id/comments
ListComments ==
    /\ Waiting
    /\ \E slug \in SlugParams, authUser \in Anyone, id \in PostIdParams,
          rejects \in BOOLEAN :
        LET result == pickAccessibleAppInstance(slug, authUser)
        IN  /\ textReq' = TextRequest("listComments", slug, authUser, id,
                                      UnknownTextId)
            /\ textRes' =
                   IF rejects
                   THEN TextJson(500, "Failed to list comments")
                   ELSE IF isDenied(result)
                   THEN TextJson(404, "App not found")
                   ELSE IF findFirstPostOfApp(id, result.app.id) = {}
                   THEN TextJson(404, "Post not found")
                   ELSE TextData(200, findManyComments(id))
            /\ UNCHANGED <<server, client, pageClient, photoComment, photoEssay,
                           photoCommentReport, photoEssayReport, textIds>>

\* POST /posts/:id/comments
CreateComment ==
    /\ Waiting
    /\ textIds < MaxTexts
    /\ \E slug \in SlugParams, authUser \in Authenticated,
          id \in PostIdParams, valid \in BOOLEAN, rejects \in BOOLEAN :
        LET result == pickAccessibleAppInstance(slug, authUser)
            comment == [id |-> textIds + 1, postId |-> id,
                        userId |-> authUser.id]
            response ==
                IF ~valid
                THEN TextJson(400, "Validation error")
                ELSE IF rejects
                THEN TextJson(500, "Failed to create comment")
                ELSE IF isDenied(result)
                THEN TextJson(404, "App not found")
                ELSE IF findFirstPostOfApp(id, result.app.id) = {}
                THEN TextJson(404, "Post not found")
                ELSE TextData(201, {comment})
        IN  /\ textReq' = TextRequest("createComment", slug, authUser, id,
                                      UnknownTextId)
            /\ textRes' = response
            /\ photoComment' = photoComment \cup response.rows
            /\ textIds' = textIds + Cardinality(response.rows)
            /\ UNCHANGED <<server, client, pageClient, photoEssay, photoCommentReport,
                           photoEssayReport>>

\* DELETE /posts/:postId/comments/:commentId
DeleteComment ==
    /\ Waiting
    /\ \E slug \in SlugParams, authUser \in Authenticated,
          postId \in PostIdParams, commentId \in TextIdParams,
          rejects \in BOOLEAN :
        LET result == pickAccessibleAppInstance(slug, authUser)
            found == {c \in photoComment : c.id = commentId}
            response ==
                IF rejects
                THEN TextJson(500, "Failed to delete comment")
                ELSE IF isDenied(result)
                THEN TextJson(404, "App not found")
                ELSE IF isMissing(found, postId)
                THEN TextJson(404, "Comment not found")
                ELSE IF \E c \in found : ~mayDelete(c, authUser)
                THEN TextJson(403, "Forbidden")
                ELSE TextData(204, {})
        IN  /\ textReq' = TextRequest("deleteComment", slug, authUser,
                                      postId, commentId)
            /\ textRes' = response
            /\ photoComment' = IF response.status = 204
                               THEN photoComment \ found
                               ELSE photoComment
            /\ UNCHANGED <<server, client, pageClient, photoEssay, photoCommentReport,
                           photoEssayReport, textIds>>

\* POST /posts/:postId/comments/:commentId/report
ReportComment ==
    /\ Waiting
    /\ \E slug \in SlugParams, authUser \in Authenticated,
          postId \in PostIdParams, commentId \in TextIdParams,
          valid \in BOOLEAN, rejects \in BOOLEAN :
        LET result == pickAccessibleAppInstance(slug, authUser)
            found == {c \in photoComment :
                          c.id = commentId /\ c.postId = postId}
            report == [commentId |-> commentId, reporterId |-> authUser.id]
            response ==
                IF ~valid
                THEN TextJson(400, "Validation error")
                ELSE IF rejects
                THEN TextJson(500, "Failed to report comment")
                ELSE IF isDenied(result)
                THEN TextJson(404, "App not found")
                ELSE IF found = {}
                THEN TextJson(404, "Comment not found")
                ELSE TextData(201, {report})
        IN  /\ textReq' = TextRequest("reportComment", slug, authUser,
                                      postId, commentId)
            /\ textRes' = response
            /\ photoCommentReport' = photoCommentReport \cup response.rows
            /\ UNCHANGED <<server, client, pageClient, photoComment, photoEssay,
                           photoEssayReport, textIds>>

\* GET /posts/:id/essays and GET /posts/:id/short-texts
ListEssays ==
    /\ Waiting
    /\ \E slug \in SlugParams, authUser \in Anyone, id \in PostIdParams,
          rejects \in BOOLEAN :
        LET result == pickAccessibleAppInstance(slug, authUser)
        IN  /\ textReq' = TextRequest("listEssays", slug, authUser, id,
                                      UnknownTextId)
            /\ textRes' =
                   IF rejects
                   THEN TextJson(500, "Failed to list photo essays")
                   ELSE IF isDenied(result)
                   THEN TextJson(404, "App not found")
                   ELSE TextData(200, findManyEssays(id))
            /\ UNCHANGED <<server, client, pageClient, photoComment, photoEssay,
                           photoCommentReport, photoEssayReport, textIds>>

\* POST /posts/:id/essays and POST /posts/:id/short-texts
CreateEssay ==
    /\ Waiting
    /\ textIds < MaxTexts
    /\ \E slug \in SlugParams, authUser \in Authenticated,
          id \in PostIdParams, valid \in BOOLEAN, rejects \in BOOLEAN :
        LET result == pickAccessibleAppInstance(slug, authUser)
            essay == [id |-> textIds + 1, postId |-> id,
                      userId |-> authUser.id]
            response ==
                IF ~valid
                THEN TextJson(400, "Validation error")
                ELSE IF rejects
                THEN TextJson(500, "Failed to create photo essay")
                ELSE IF isDenied(result)
                THEN TextJson(404, "App not found")
                ELSE IF findFirstPostOfApp(id, result.app.id) = {}
                THEN TextJson(404, "Post not found")
                ELSE TextData(201, {essay})
        IN  /\ textReq' = TextRequest("createEssay", slug, authUser, id,
                                      UnknownTextId)
            /\ textRes' = response
            /\ photoEssay' = photoEssay \cup response.rows
            /\ textIds' = textIds + Cardinality(response.rows)
            /\ UNCHANGED <<server, client, pageClient, photoComment, photoCommentReport,
                           photoEssayReport>>

\* DELETE /posts/:postId/essays/:essayId and
\* DELETE /posts/:postId/short-texts/:essayId
DeleteEssay ==
    /\ Waiting
    /\ \E slug \in SlugParams, authUser \in Authenticated,
          postId \in PostIdParams, essayId \in TextIdParams,
          rejects \in BOOLEAN :
        LET result == pickAccessibleAppInstance(slug, authUser)
            found == {e \in photoEssay : e.id = essayId}
            response ==
                IF rejects
                THEN TextJson(500, "Failed to delete photo essay")
                ELSE IF isDenied(result)
                THEN TextJson(404, "App not found")
                ELSE IF isMissing(found, postId)
                THEN TextJson(404, "Essay not found")
                ELSE IF \E e \in found : ~mayDelete(e, authUser)
                THEN TextJson(403, "Forbidden")
                ELSE TextData(204, {})
        IN  /\ textReq' = TextRequest("deleteEssay", slug, authUser,
                                      postId, essayId)
            /\ textRes' = response
            /\ photoEssay' = IF response.status = 204
                             THEN photoEssay \ found
                             ELSE photoEssay
            /\ UNCHANGED <<server, client, pageClient, photoComment, photoCommentReport,
                           photoEssayReport, textIds>>

\* POST /posts/:postId/short-texts/:essayId/report
ReportEssay ==
    /\ Waiting
    /\ \E slug \in SlugParams, authUser \in Authenticated,
          postId \in PostIdParams, essayId \in TextIdParams,
          valid \in BOOLEAN, rejects \in BOOLEAN :
        LET result == pickAccessibleAppInstance(slug, authUser)
            found == {e \in photoEssay : e.id = essayId /\ e.postId = postId}
            report == [essayId |-> essayId, reporterId |-> authUser.id]
            response ==
                IF ~valid
                THEN TextJson(400, "Validation error")
                ELSE IF rejects
                THEN TextJson(500, "Failed to report essay")
                ELSE IF isDenied(result)
                THEN TextJson(404, "App not found")
                ELSE IF found = {}
                THEN TextJson(404, "Essay not found")
                ELSE TextData(201, {report})
        IN  /\ textReq' = TextRequest("reportEssay", slug, authUser,
                                      postId, essayId)
            /\ textRes' = response
            /\ photoEssayReport' = photoEssayReport \cup response.rows
            /\ UNCHANGED <<server, client, pageClient, photoComment, photoEssay,
                           photoCommentReport, textIds>>

\* ------------------------------------------------------------------------
\* PATCH and DELETE /posts/:id
\* ------------------------------------------------------------------------

\* the title of a post that was given none, and the titles a PATCH carries
NoTitle == "null"
Titles == {"t", NoTitle}

\* authorizeRole(roles): the middleware passes the callers of these roles
authorizeRole(roles, authUser) == authUser.role \in roles

\* the callers that reach the two handlers
Editors == {a \in Authenticated : authorizeRole({"ADMIN", "EDITOR"}, a)}

\* !app
isNoApp(result) == result.app = NullApp

\* PATCH /posts/:id
PatchPost ==
    /\ Waiting
    /\ \E slug \in SlugParams, authUser \in Editors, id \in PostIdParams,
          title \in Titles, valid \in BOOLEAN, rejects \in BOOLEAN :
        LET result == pickAccessibleAppInstance(slug, authUser)
            existing == IF isNoApp(result) THEN {}
                        ELSE findFirstPostOfApp(id, result.app.id)
            updated == {[p EXCEPT !.title = title] : p \in existing}
            response ==
                IF ~valid
                THEN TextJson(400, "Validation error")
                ELSE IF rejects
                THEN TextJson(500, "Failed to update photo post")
                ELSE IF isNoApp(result)
                THEN TextJson(404, "App not found")
                ELSE IF existing = {}
                THEN TextJson(404, "Post not found")
                ELSE TextData(200, updated)
        IN  /\ textReq' = TextRequest("patchPost", slug, authUser, id,
                                      UnknownTextId)
            /\ textRes' = response
            /\ photoPost' = IF response.status = 200
                            THEN (photoPost \ existing) \cup updated
                            ELSE photoPost
            /\ UNCHANGED <<client, pageClient, appInstance, user, userGroup,
                           media, storage, env, pc, req, locals, res, photoComment,
                           photoEssay, photoCommentReport, photoEssayReport,
                           textIds>>

\* DELETE /posts/:id; the comments and essays of the post go with it
DeletePost ==
    /\ Waiting
    /\ \E slug \in SlugParams, authUser \in Editors, id \in PostIdParams,
          rejects \in BOOLEAN :
        LET result == pickAccessibleAppInstance(slug, authUser)
            deleted == IF isNoApp(result) THEN {}
                       ELSE findFirstPostOfApp(id, result.app.id)
            response ==
                IF rejects
                THEN TextJson(500, "Failed to delete photo post")
                ELSE IF isNoApp(result)
                THEN TextJson(404, "App not found")
                ELSE TextData(204, {})
        IN  /\ textReq' = TextRequest("deletePost", slug, authUser, id,
                                      UnknownTextId)
            /\ textRes' = response
            /\ IF response.status = 204
               THEN /\ photoPost' = photoPost \ deleted
                    /\ photoComment' =
                           {c \in photoComment :
                                \A p \in deleted : c.postId # p.id}
                    /\ photoEssay' =
                           {e \in photoEssay :
                                \A p \in deleted : e.postId # p.id}
               ELSE UNCHANGED <<photoPost, photoComment, photoEssay>>
            /\ UNCHANGED <<client, pageClient, appInstance, user, userGroup,
                           media, storage, env, pc, req, locals, res,
                           photoCommentReport, photoEssayReport, textIds>>

\* ------------------------------------------------------------------------
\* The uploads directory under other processes
\* ------------------------------------------------------------------------

\* the files of the media "p.p": the canonical file and its two variants
UploadFiles ==
    {pathResolve(UploadsRootDir, n) :
        n \in {<<"p", ".", "p">>, <<"p", "-thumb", ".", "p">>,
               <<"p", "-medium", ".", "p">>}}

\* another process writes a file into the uploads directory
FsCreate ==
    /\ \E f \in UploadFiles \ storage : storage' = storage \cup {f}
    /\ UNCHANGED <<client, rest, appInstance, user, userGroup, photoPost,
                   media, env, pc, req, locals, res>>

\* another process removes a file from the uploads directory
FsRemove ==
    /\ \E f \in storage : storage' = storage \ {f}
    /\ UNCHANGED <<client, rest, appInstance, user, userGroup, photoPost,
                   media, env, pc, req, locals, res>>

\* ------------------------------------------------------------------------
\* PhotoStoryPageClient
\* ------------------------------------------------------------------------

\* meta before the first response
NullMeta == [page |-> 0, totalPages |-> 0]

\* what GET /posts returns for a page: its posts, written as the number of
\* the page, and meta
ListResponse(pageNumber) ==
    [data |-> <<pageNumber>>,
     meta |-> [page |-> pageNumber, totalPages |-> MaxPages]]

ListOutcomes == {"ok", "unauthorized", "notFound", "failed"}

\* the state of the component after construction, with or without a token
InitPage(token) ==
    /\ gallery = [page |-> 1, posts |-> <<>>, meta |-> NullMeta,
                  isLoading |-> TRUE, notFound |-> FALSE,
                  needsLogin |-> FALSE, token |-> token, fetchDue |-> TRUE,
                  left |-> FALSE]
    /\ listRequests = <<>>

\* the requests that have settled
ListSettled == {r \in 1..Len(listRequests) : listRequests[r].state # "pending"}

\* the effect of [page, fetchPosts] runs fetchPosts(page) up to its await
FetchPosts ==
    /\ gallery.fetchDue
    /\ Len(listRequests) < MaxListRequests
    /\ gallery' = [gallery EXCEPT !.isLoading = TRUE, !.notFound = FALSE,
                                  !.needsLogin = FALSE, !.fetchDue = FALSE]
    /\ listRequests' = Append(listRequests,
                              [page |-> gallery.page, state |-> "pending",
                               order |-> 0])
    /\ UNCHANGED <<server, client, texts>>

\* fetchPosts after the await: the try, the catch and the finally
fetched(g, outcome, pageNumber) ==
    LET resp == ListResponse(pageNumber)
        after ==
            IF outcome = "ok"
            THEN [g EXCEPT !.posts = resp.data, !.meta = resp.meta]
            ELSE IF outcome = "unauthorized"
            THEN IF ~g.token
                 THEN [g EXCEPT !.left = TRUE]
                 ELSE [g EXCEPT !.needsLogin = TRUE]
            ELSE [g EXCEPT !.notFound = TRUE]
    IN  [after EXCEPT !.isLoading = FALSE]

\* a call of api.apps.listPosts settles
ListSettles ==
    /\ \E r \in 1..Len(listRequests), outcome \in ListOutcomes :
           /\ listRequests[r].state = "pending"
           /\ listRequests' =
                  [listRequests EXCEPT
                      ![r].state = outcome,
                      ![r].order = Cardinality(ListSettled) + 1]
           /\ gallery' = fetched(gallery, outcome, listRequests[r].page)
    /\ UNCHANGED <<server, client, texts>>

\* the pagination controls are on the screen
PaginationShown ==
    /\ ~gallery.left
    /\ ~gallery.needsLogin
    /\ ~gallery.notFound
    /\ gallery.meta # NullMeta
    /\ gallery.meta.totalPages > 1

\* setPage((prev) => Math.max(1, prev - 1))
previousPage(prev) == IF prev - 1 > 1 THEN prev - 1 ELSE 1

\* setPage((prev) => Math.min(meta.totalPages, prev + 1))
nextPage(prev, totalPages) ==
    IF prev + 1 < totalPages THEN prev + 1 ELSE totalPages

\* a click on the button of the previous page; the effect of the earlier
\* render has run
ClickPrevious ==
    /\ PaginationShown
    /\ ~gallery.fetchDue
    /\ gallery.page > 1
    /\ gallery' = [gallery EXCEPT
                      !.page = previousPage(gallery.page),
                      !.fetchDue = previousPage(gallery.page) # gallery.page]
    /\ UNCHANGED <<server, client, texts, listRequests>>

\* a click on the button of the next page
ClickNext ==
    /\ PaginationShown
    /\ ~gallery.fetchDue
    /\ gallery.page < gallery.meta.totalPages
    /\ gallery' = [gallery EXCEPT
                      !.page = nextPage(gallery.page, gallery.meta.totalPages),
                      !.fetchDue =
                          nextPage(gallery.page, gallery.meta.totalPages)
                              # gallery.page]
    /\ UNCHANGED <<server, client, texts, listRequests>>

\* ------------------------------------------------------------------------
\* Initial states
\* ------------------------------------------------------------------------

\* the process environments: direct streaming, or delegation to the proxy
\* under the prefix "internal", written with or without its slashes
Envs ==
    {[UPLOADS_SERVE_STRATEGY |-> "direct",
      UPLOADS_ACCEL_REDIRECT_PREFIX |-> <<sep, "i", sep>>],
     [UPLOADS_SERVE_STRATEGY |-> "accel",
      UPLOADS_ACCEL_REDIRECT_PREFIX |-> <<sep, "i", sep>>],
     [UPLOADS_SERVE_STRATEGY |-> "accel",
      UPLOADS_ACCEL_REDIRECT_PREFIX |-> <<"i">>]}

\* the set of groups whose bits are set in n
GroupsOfBits(n) == {g \in Groups : (n \div (2 ^ (g - 1))) % 2 = 1}

\* the k-th policy configuration: null, no allowedGroupIds, a string, and
\* then one array for every set of groups
ConfigAt(k) ==
    IF k = 0 THEN NullConfig
    ELSE IF k = 1 THEN ObjectConfig(UndefinedValue)
    ELSE IF k = 2 THEN ObjectConfig(StringValue)
    ELSE ObjectConfig(ArrayValue(GroupsOfBits(k - 3)))

NumConfigs == 3 + 2 ^ NumGroups

\* the slug of the tenant that is not a photo story
BlogSlug == 2 * NumConfigs + 1

\* the tenant anyone may enter
OpenTenant == Tenant(1, "PHOTO_STORY", TRUE, NullConfig)

\* no instance is mounted, and the module was just loaded
InitImages ==
    /\ comps = [i \in Comps |-> Unmounted]
    /\ imageCache = EmptyCache
    /\ runs = <<>>
    /\ created = 0
    /\ revoked = {}

\* no comment, essay or report was written, and no request was made
InitTexts ==
    /\ photoComment = {}
    /\ photoEssay = {}
    /\ photoCommentReport = {}
    /\ photoEssayReport = {}
    /\ textIds = 0
    /\ textReq = NoTextRequest
    /\ textRes = TextJson(0, "")

InitHandler ==
    /\ pc = "idle"
    /\ req = [slug |-> UnknownSlug, authUser |-> NoUser,
              mediaId |-> UnknownMediaId, size |-> NoSize]
    /\ access = [app |-> NullApp, allowed |-> FALSE,
                 allowedGroupIds |-> NoGroupIds, lookups |-> 0]
    /\ safeFilename = NullString
    /\ requestedFilename = NullString
    /\ requestedPath = NullString
    /\ fallbackPath = NullString
    /\ fileToServe = NullString
    /\ absPath = NullString
    /\ res = NoResponse

\* The policy-rich world: one photo-story tenant of every activation and
\* policy (odd slugs are active), one tenant of another kind, one user of
\* every group membership (user u is in the groups whose bits are set in
\* u - 1), and two media, "m1" posted in every active tenant and "m2" in
\* every inactive one.
Init ==
    /\ appInstance =
           {Tenant(s, "PHOTO_STORY", s % 2 = 1, ConfigAt((s - 1) \div 2)) :
                s \in 1..(2 * NumConfigs)}
               \cup {Tenant(BlogSlug, "BLOG", TRUE, NullConfig)}
    /\ user = 1..(2 ^ NumGroups)
    /\ userGroup = UNION {{[userId |-> u, groupId |-> g] :
                              g \in GroupsOfBits(u - 1)} : u \in user}
    /\ media = {[id |-> "m1", filename |-> <<"p", ".", "p">>,
                 url |-> <<sep, "U", sep, "p", ".", "p">>],
                [id |-> "m2", filename |-> NullString,
                 url |-> <<sep, "U", sep, "p", "p">>]}
    /\ photoPost = {[id |-> a.id, appInstanceId |-> a.id,
                     mediaId |-> IF a.isActive THEN "m1" ELSE "m2",
                     title |-> NoTitle] :
                        a \in appInstance}
    /\ storage = {<<sep, "U", sep, "p", ".", "p">>,
                  <<sep, "U", sep, "p", "-thumb", ".", "p">>,
                  <<sep, "U", sep, "p", "p">>}
    /\ env \in Envs
    /\ InitHandler
    /\ InitImages
    /\ InitTexts
    /\ InitPage(FALSE)

\* the filename with the suffix inserted immediately before its extension,
\* every other part kept (the naming convention of the derived files)
SuffixedName(filename, suffix) ==
    LET ext == extname(filename)
    IN  SubSeq(filename, 1, Len(filename) - Len(ext)) \o <<suffix>> \o ext

Suffixes == {"-thumb", "-medium"}

\* the stored names: every string of at most MaxNameLen characters
StoredNames == SeqsUpTo(Chars, MaxNameLen)

\* the Media rows of id "m1": a filename with the url made from it, or no
\* filename and a url under /uploads/
MediaRows ==
    {[id |-> "m1", filename |-> n, url |-> <<sep, "U", sep>> \o n] :
        n \in StoredNames \ {NullString}}
        \cup {[id |-> "m1", filename |-> NullString,
               url |-> <<sep, "U", sep>> \o n] : n \in StoredNames}

\* the files a row may have under the uploads root: its canonical file, its
\* derived files next to it, the files of these names in the root itself,
\* and a file in the directory of its name
FilesOf(m) ==
    LET name == Join(SelectSeq(Split(rawFilenameOf(m)),
                               LAMBDA x : x # <<>> /\ x # <<".">>))
        names == {name} \cup {SuffixedName(name, x) : x \in Suffixes}
                     \cup {SuffixedName(LastPortion(name), x) : x \in Suffixes}
                     \cup {name \o <<sep, "p">>}
    IN  IF name = NullString THEN {}
        ELSE {pathResolve(UploadsRootDir, n) : n \in names}

\* The media-rich world: the open tenant with one post, whose media row and
\* files are drawn from the bounded sets; every caller is anonymous.
InitMedia ==
    /\ appInstance = {OpenTenant}
    /\ user = {}
    /\ userGroup = {}
    /\ media \in {{m} : m \in MediaRows}
    /\ photoPost = {[id |-> 1, appInstanceId |-> OpenTenant.id,
                     mediaId |-> "m1", title |-> NoTitle]}
    /\ storage \in UNION {SUBSET FilesOf(m) : m \in media}
    /\ env \in {e \in Envs : e.UPLOADS_ACCEL_REDIRECT_PREFIX[1] = sep}
    /\ InitHandler
    /\ InitImages
    /\ InitTexts
    /\ InitPage(FALSE)

Next ==
    \/ ImgRequest
    \/ ImgAuthorize
    \/ ImgLookup
    \/ ImgProbe1
    \/ ImgProbe2
    \/ ImgProbe3
    \/ ImgDeliver
    \/ ImgError

Spec == Init /\ [][Next]_vars

SpecMedia == InitMedia /\ [][Next]_vars

\* The page: the components over a server that stays idle.
InitClient ==
    /\ appInstance = {OpenTenant}
    /\ user = {}
    /\ userGroup = {}
    /\ media = {}
    /\ photoPost = {}
    /\ storage = {}
    /\ env = [UPLOADS_SERVE_STRATEGY |-> "direct",
              UPLOADS_ACCEL_REDIRECT_PREFIX |-> <<sep, "i", sep>>]
    /\ InitHandler
    /\ InitImages
    /\ InitTexts
    /\ InitPage(FALSE)

NextClient ==
    \/ Mount
    \/ Render
    \/ Effects
    \/ Settle
    \/ Unmount

SpecClient == InitClient /\ [][NextClient]_vars

\* The two-tenant world: the open tenant and a tenant reserved to group 1,
\* with one post each; user 1 is in no group, user 2 is in group 1.
InitTenants ==
    /\ appInstance = {OpenTenant,
                      Tenant(2, "PHOTO_STORY", TRUE,
                             ObjectConfig(ArrayValue({1})))}
    /\ user = {1, 2}
    /\ userGroup = {[userId |-> 2, groupId |-> 1]}
    /\ media = {[id |-> "m1", filename |-> <<"p", ".", "p">>,
                 url |-> <<sep, "U", sep, "p", ".", "p">>]}
    /\ photoPost = {[id |-> 1, appInstanceId |-> 1, mediaId |-> "m1",
                     title |-> NoTitle],
                    [id |-> 2, appInstanceId |-> 2, mediaId |-> "m1",
                     title |-> NoTitle]}
    /\ storage = {<<sep, "U", sep, "p", ".", "p">>}
    /\ env = [UPLOADS_SERVE_STRATEGY |-> "direct",
              UPLOADS_ACCEL_REDIRECT_PREFIX |-> <<sep, "i", sep>>]
    /\ InitHandler
    /\ InitImages
    /\ InitTexts
    /\ InitPage(FALSE)

NextTexts ==
    \/ ListComments
    \/ CreateComment
    \/ DeleteComment
    \/ ReportComment
    \/ ListEssays
    \/ CreateEssay
    \/ DeleteEssay
    \/ ReportEssay
    \/ TextClose

SpecTexts == InitTenants /\ [][NextTexts]_vars

\* The open tenant with the media "p.p", any of whose files may be there,
\* while other processes write and remove them.
InitRace ==
    /\ appInstance = {OpenTenant}
    /\ user = {}
    /\ userGroup = {}
    /\ media = {[id |-> "m1", filename |-> <<"p", ".", "p">>,
                 url |-> <<sep, "U", sep, "p", ".", "p">>]}
    /\ photoPost = {[id |-> 1, appInstanceId |-> OpenTenant.id,
                     mediaId |-> "m1", title |-> NoTitle]}
    /\ storage \in SUBSET UploadFiles
    /\ env \in Envs
    /\ InitHandler
    /\ InitImages
    /\ InitTexts
    /\ InitPage(FALSE)

NextRace ==
    \/ Next
    \/ FsCreate
    \/ FsRemove

SpecRace == InitRace /\ [][NextRace]_vars

NextPosts ==
    \/ PatchPost
    \/ DeletePost

\* The policy-rich world, served by direct streaming, under one request of
\* an editor.
InitPosts == Init /\ env.UPLOADS_SERVE_STRATEGY = "direct"

SpecPosts == InitPosts /\ [][NextPosts]_vars

\* the locators and credentials written with a letter and the separator of
\* the cache key
KeyStrings == SeqsUpTo({"a", "|"}, MaxKeyLen) \ {<<>>}

\* The page right after every instance was mounted with a locator and a
\* credential of these strings; the effects of the first render are pending.
InitKeys ==
    /\ appInstance = {OpenTenant}
    /\ user = {}
    /\ userGroup = {}
    /\ media = {}
    /\ photoPost = {}
    /\ storage = {}
    /\ env = [UPLOADS_SERVE_STRATEGY |-> "direct",
              UPLOADS_ACCEL_REDIRECT_PREFIX |-> <<sep, "i", sep>>]
    /\ InitHandler
    /\ InitTexts
    /\ InitPage(FALSE)
    /\ comps \in [Comps ->
                     {[mounted |-> TRUE, src |-> src,
                       token |-> StringToken(value),
                       resolvedSrc |->
                           initialResolvedSrc(src, StringToken(value)),
                       dirty |-> TRUE, run |-> 0] :
                          src \in KeyStrings, value \in KeyStrings}]
    /\ imageCache = EmptyCache
    /\ runs = <<>>
    /\ created = 0
    /\ revoked = {}

NextKeys ==
    \/ Effects
    \/ Settle
    \/ Unmount

SpecKeys == InitKeys /\ [][NextKeys]_vars

\* The photo page of the open tenant, opened with or without a token, over
\* a server that stays idle.
InitGallery ==
    /\ appInstance = {OpenTenant}
    /\ user = {}
    /\ userGroup = {}
    /\ media = {}
    /\ photoPost = {}
    /\ storage = {}
    /\ env = [UPLOADS_SERVE_STRATEGY |-> "direct",
              UPLOADS_ACCEL_REDIRECT_PREFIX |-> <<sep, "i", sep>>]
    /\ InitHandler
    /\ InitImages
    /\ InitTexts
    /\ \E token \in BOOLEAN : InitPage(token)

NextGallery ==
    \/ FetchPosts
    \/ ListSettles
    \/ ClickPrevious
    \/ ClickNext

SpecGallery == InitGallery /\ [][NextGallery]_vars

\* The page with its scheduled work done: React runs the effects of every
\* committed render, and every fetch settles.  Mounting, rendering with
\* other props and unmounting are left to the user.
SpecClientFair ==
    SpecClient /\ WF_vars(Effects) /\ WF_vars(Settle)

\* ------------------------------------------------------------------------
\* Properties of the access check
\* ------------------------------------------------------------------------

\* pickAccessibleAppInstance has returned for the request (a request that
\* failed after the access check had been allowed in)
Authorized ==
    \/ pc \notin {"idle", "auth", "failed"}
    \/ pc = "failed" /\ access.allowed

\* the stored rows of the requested slug
RequestedTenants == {a \in appInstance : a.slug = req.slug}

\* the caller holds an elevated role
Elevated == req.authUser.role \in {"ADMIN", "EDITOR"}

\* the policy names no group: allowedGroupIds is missing, is not an array,
\* or is the empty array
EmptyPolicy(config) ==
    \/ config.isNull
    \/ config.allowedGroupIds.type # "array"
    \/ config.allowedGroupIds.items = {}

\* C1: a slug that names no stored PHOTO_STORY tenant (unknown slug, or a
\* tenant of another kind) gives app = null and allowed = false, whoever
\* the caller is.
C1_UnknownOrOtherKindIsNull ==
    (Authorized /\ \A a \in RequestedTenants : a.type # "PHOTO_STORY")
        => (access.app = NullApp /\ ~access.allowed)

C1_Witness ==
    /\ pc = "done"
    /\ req.slug = BlogSlug
    /\ req.authUser.role = "ADMIN"
    /\ access.app = NullApp
    /\ ~access.allowed

\* C2: an inactive tenant denies every caller that is not ADMIN or EDITOR,
\* whatever its allowedGroupIds and the caller's groups.
C2_InactiveDeniesOrdinary ==
    (Authorized /\ ~Elevated /\ \E a \in RequestedTenants : ~a.isActive)
        => ~access.allowed

C2_Witness ==
    /\ pc = "done"
    /\ req.authUser.role = "USER"
    /\ \E a \in RequestedTenants :
          /\ ~a.isActive
          /\ a.config.allowedGroupIds.type = "array"
          /\ \E r \in userGroup :
                /\ r.userId = req.authUser.id
                /\ r.groupId \in a.config.allowedGroupIds.items
    /\ ~access.allowed

\* C3: an active PHOTO_STORY tenant whose policy names no group allows
\* every caller, the anonymous one included.
C3_OpenTenantAllowsAll ==
    (Authorized /\ \E a \in RequestedTenants :
                       /\ a.type = "PHOTO_STORY"
                       /\ a.isActive
                       /\ EmptyPolicy(a.config))
        => access.allowed

C3_Witness ==
    /\ Authorized
    /\ ~req.authUser.present
    /\ \E a \in RequestedTenants :
          /\ a.type = "PHOTO_STORY"
          /\ a.isActive
          /\ a.config.allowedGroupIds.type = "string"
    /\ access.allowed

\* C4: a caller with role ADMIN or EDITOR is allowed into every stored
\* PHOTO_STORY tenant, active or not and whatever its allowedGroupIds, and
\* no group-membership lookup is made for it.
C4_ElevatedAlwaysAllowed ==
    (Authorized /\ Elevated
         /\ \E a \in RequestedTenants : a.type = "PHOTO_STORY")
        => /\ access.allowed
           /\ access.app \in RequestedTenants
           /\ access.lookups = 0

C4_Witness ==
    /\ Authorized
    /\ req.authUser.role = "EDITOR"
    /\ \A r \in userGroup : r.userId # req.authUser.id
    /\ \E a \in RequestedTenants :
          /\ a.type = "PHOTO_STORY"
          /\ ~a.isActive
          /\ a.config.allowedGroupIds = ArrayValue(Groups)
    /\ access.allowed

\* C5: in an active PHOTO_STORY tenant whose allowedGroupIds is a non-empty
\* array, a caller that is not elevated is allowed exactly when it is
\* present and one of its groups is in allowedGroupIds; the anonymous
\* caller is denied.
C5_GroupGate ==
    \A a \in RequestedTenants :
        (/\ Authorized
         /\ ~Elevated
         /\ a.type = "PHOTO_STORY"
         /\ a.isActive
         /\ ~EmptyPolicy(a.config))
            => (access.allowed <=>
                   /\ req.authUser.present
                   /\ \E r \in userGroup :
                         /\ r.userId = req.authUser.id
                         /\ r.groupId \in a.config.allowedGroupIds.items)

C5_Witness ==
    /\ Authorized
    /\ req.authUser.role = "USER"
    /\ \E a \in RequestedTenants :
          /\ a.isActive
          /\ a.config.allowedGroupIds = ArrayValue(Groups)
    /\ {r.groupId : r \in {x \in userGroup : x.userId = req.authUser.id}}
           = {1}
    /\ access.allowed

\* ------------------------------------------------------------------------
\* Properties of GET /image/:mediaId
\* ------------------------------------------------------------------------

\* the caller was allowed into the requested tenant
Allowed == Authorized /\ access.app # NullApp /\ access.allowed

\* the requested media is attached to a post of the requested tenant
OwnedMedia ==
    \E p \in photoPost :
        p.appInstanceId = access.app.id /\ p.mediaId = req.mediaId

\* the requested media is attached to posts, all of them of other tenants
ForeignMedia ==
    /\ \E p \in photoPost : p.mediaId = req.mediaId
    /\ ~OwnedMedia

\* the response delivers or delegates a file
Delivers ==
    \/ res.status = 200
    \/ res.accelRedirect # NullString
    \/ res.sentFile # NullString

\* C6: for a caller allowed into the requested tenant, a media id attached
\* only to posts of other tenants is answered exactly as a media id that
\* exists nowhere, 404 "Image not found", and nothing is delivered for a
\* media the requested tenant does not own.
C6_ForeignMediaIsNotFound ==
    (pc = "done" /\ Allowed /\ ~OwnedMedia)
        => (res = Json(404, "Image not found") /\ ~Delivers)

C6_Witness ==
    /\ pc = "done"
    /\ Allowed
    /\ req.authUser.role = "ADMIN"
    /\ ForeignMedia
    /\ res = Json(404, "Image not found")

\* the media row the request names, and the filename the route reads in it
RequestedMedia == CHOOSE m \in media : m.id = req.mediaId
RawFilename == rawFilenameOf(RequestedMedia)

\* the name has a parent-directory segment
HasParentSegment(name) ==
    \E i \in 1..Len(Split(name)) : Split(name)[i] = <<".", ".">>

\* the absolute path lies inside the uploads root
InsideUploads(abs) ==
    /\ Len(abs) > Len(UploadsRootDir) + 1
    /\ SubSeq(abs, 1, Len(UploadsRootDir) + 1) = UploadsRootDir \o <<sep>>

\* the file the response delivers: the file sent, or the file the proxy
\* transfers for the X-Accel-Redirect header, its prefix standing for the
\* uploads root
ServedPath ==
    IF res.accelRedirect # NullString
    THEN pathResolve(UploadsRootDir,
             SubSeq(res.accelRedirect,
                    Len(accelPrefix(env.UPLOADS_ACCEL_REDIRECT_PREFIX)) + 1,
                    Len(res.accelRedirect)))
    ELSE res.sentFile

\* C7: a stored filename (or url fragment) that has a parent-directory
\* segment or resolves outside the uploads root is answered 400, with no
\* X-Accel-Redirect header and no file; and every 200 response serves a
\* path inside the uploads root.
C7_TraversalIsRejected ==
    /\ (/\ pc = "done"
        /\ Allowed
        /\ OwnedMedia
        /\ \/ HasParentSegment(RawFilename)
           \/ ~InsideUploads(pathResolve(UploadsRootDir, RawFilename)))
           => /\ res.status = 400
              /\ res.accelRedirect = NullString
              /\ res.sentFile = NullString
    /\ (pc = "done" /\ res.status = 200) => InsideUploads(ServedPath)

\* a request for a name that climbs out of the root to a file that exists
C7_Witness ==
    /\ pc = "done"
    /\ Allowed
    /\ OwnedMedia
    /\ HasParentSegment(RawFilename)
    /\ pathResolve(UploadsRootDir, RawFilename) = <<sep, "p">>
    /\ pathResolve(UploadsRootDir, RawFilename) \in storage
    /\ res.status = 400

\* the name the size stands for when the suffix is inserted before the
\* extension and every other part of the filename is kept
ClaimedSizedFilename(filename, size) ==
    IF size = "thumbnail" THEN SuffixedName(filename, "-thumb")
    ELSE IF size = "medium" THEN SuffixedName(filename, "-medium")
    ELSE filename

\* C8: resolveSizedFilename returns the filename unchanged when size is
\* absent, "large" or unrecognized, and otherwise the same filename, its
\* directory segments included, with "-thumb" or "-medium" inserted
\* immediately before the extension.
C8_SizedFilenameKeepsEveryPart ==
    requestedFilename # NullString
        => requestedFilename = ClaimedSizedFilename(safeFilename, req.size)

\* C9: for an allowed caller and an owned media whose canonical file
\* exists, the response is 200 for every size; the variant file is served
\* when it exists and the canonical file when it does not.
C9_VariantOrCanonicalIsServed ==
    LET canonical == pathResolve(UploadsRootDir, safeFilename)
        variant == pathResolve(UploadsRootDir,
                       ClaimedSizedFilename(safeFilename, req.size))
    IN  (/\ pc = "done"
         /\ Allowed
         /\ OwnedMedia
         /\ safeFilename # NullString
         /\ canonical \in storage)
            => /\ res.status = 200
               /\ ServedPath = IF variant \in storage
                               THEN variant
                               ELSE canonical

\* C10: a caller the access check denies in a tenant it found (app not
\* null, allowed = false) is answered 403; 404 is kept for a tenant, a
\* media ownership or a file that is not found.
C10_DeniedIsForbidden ==
    (pc = "done" /\ access.app # NullApp /\ ~access.allowed)
        => res.status = 403

\* ------------------------------------------------------------------------
\* Properties of the denial
\* ------------------------------------------------------------------------

\* the caller is in one of the groups the policy names
InPolicyGroup(config) ==
    /\ req.authUser.present
    /\ \E r \in userGroup :
          /\ r.userId = req.authUser.id
          /\ r.groupId \in config.allowedGroupIds.items

\* the four ways a tenant is out of the reach of a caller that is not
\* elevated
SlugUnknown == RequestedTenants = {}
OtherKind == \E a \in RequestedTenants : a.type # "PHOTO_STORY"
Inactive ==
    \E a \in RequestedTenants : a.type = "PHOTO_STORY" /\ ~a.isActive
GroupDenied ==
    \E a \in RequestedTenants :
        /\ a.type = "PHOTO_STORY"
        /\ a.isActive
        /\ ~EmptyPolicy(a.config)
        /\ ~InPolicyGroup(a.config)

\* what the route answers the caller of the request under a slug that no
\* tenant carries
ResponseToUnknownSlug ==
    LET result == pickAccessibleAppInstance(UnknownSlug, req.authUser)
    IN  IF isDenied(result) THEN appNotFound(result) ELSE NoResponse

TouchesContent ==
    ImgLookup \/ ImgProbe1 \/ ImgProbe2 \/ ImgProbe3 \/ ImgDeliver

\* C12: the media lookup, the storage probes, the X-Accel-Redirect header
\* and the file transfer are steps taken only when pickAccessibleAppInstance
\* has returned an app that is not null with allowed = true; the header and
\* the file are written only by the delivery step, taken only when the
\* filename and both paths have been resolved; and a request that was
\* answered (denied, not found, invalid or failed) takes none of these
\* steps.
C12_ContentOnlyAfterAccessAndResolution ==
    [][/\ TouchesContent => (access.app # NullApp /\ access.allowed)
       /\ (\/ res'.accelRedirect # res.accelRedirect
           \/ res'.sentFile # res.sentFile) => ImgDeliver
       /\ ImgDeliver => /\ safeFilename # NullString
                        /\ requestedPath # NullString
                        /\ fallbackPath # NullString
                        /\ existsSync(absPath)
       /\ res.status # 0 => ~TouchesContent]_vars

\* a group member was let in and the proxy was told the file
C12_Witness ==
    /\ pc = "done"
    /\ req.authUser.role = "USER"
    /\ \E a \in RequestedTenants : ~EmptyPolicy(a.config)
    /\ access.allowed
    /\ res.status = 200
    /\ res.accelRedirect # NullString

\* ------------------------------------------------------------------------
\* The two delivery strategies
\* ------------------------------------------------------------------------

\* the file the response r delivers under the environment e
ServedPathOf(r, e) ==
    IF r.accelRedirect # NullString
    THEN pathResolve(UploadsRootDir,
             SubSeq(r.accelRedirect,
                    Len(accelPrefix(e.UPLOADS_ACCEL_REDIRECT_PREFIX)) + 1,
                    Len(r.accelRedirect)))
    ELSE r.sentFile

\* C13: the request that reaches the delivery (every earlier answer is
\* written before the strategy is read) gets the same status code and the
\* same file under the delegated strategy as under direct streaming.
C13_StrategiesAgree ==
    pc = "deliver"
        => \A e1, e2 \in Envs :
              /\ delivered(e1).status = delivered(e2).status
              /\ ServedPathOf(delivered(e1), e1)
                     = ServedPathOf(delivered(e2), e2)

\* ------------------------------------------------------------------------
\* Effects of the access check and of GET /image/:mediaId
\* ------------------------------------------------------------------------

\* C20: no step of GET /image/:mediaId, pickAccessibleAppInstance included,
\* changes the tenants, the users and their group memberships, the posts,
\* the media, the stored files or the environment of the process, whether
\* the request is allowed, denied, not found, invalid or failed; and
\* pickAccessibleAppInstance calls userGroup.findMany at most once.
C20_ReadsOnly ==
    [][/\ UNCHANGED stores
       /\ access'.lookups <= 1]_vars

\* a group member was looked up once and the file it was sent is still there
C20_Witness ==
    /\ pc = "done"
    /\ access.lookups = 1
    /\ access.allowed
    /\ res.status = 200
    /\ res.sentFile \in storage

\* ------------------------------------------------------------------------
\* Properties of AuthorizedImage
\* ------------------------------------------------------------------------

\* the runs started for a cache key
RunsOf(key) == {r \in 1..Len(runs) : runs[r].cacheKey = key}

\* the instance has a token and the effects of its last render have run
Resolving(i) ==
    /\ comps[i].mounted
    /\ ~comps[i].dirty
    /\ ~isFalsy(comps[i].token)

\* C14: once a fetch of a (src, token) pair has ended well, no resolution
\* of the same pair fetches again; and where one fetch is all the pair ever
\* had, every instance that resolved the pair, by that fetch or after it,
\* shows the object URL that fetch created.
C14_SecondResolutionIsServedFromCache ==
    /\ \A r \in 1..Len(runs) : \A q \in runs[r].settled :
           runs[q].state = "ok" => runs[q].cacheKey # runs[r].cacheKey
    /\ \A i \in Comps : \A q \in 1..Len(runs) :
           (/\ Resolving(i)
            /\ RunsOf(cacheKeyOf(comps[i].src, comps[i].token)) = {q}
            /\ runs[q].state = "ok")
               => comps[i].resolvedSrc = runs[q].objectUrl

\* two instances of the same pair, the second resolved from the cache after
\* the fetch of the first had ended, and a single fetch on the page
C14_Witness ==
    /\ Len(runs) = 1
    /\ runs[1].state = "ok"
    /\ runs[1].comp = 1
    /\ \A i \in {1, 2} :
          /\ Resolving(i)
          /\ cacheKeyOf(comps[i].src, comps[i].token) = runs[1].cacheKey
          /\ comps[i].resolvedSrc = ObjectUrl(1)
    /\ comps[1].run = 1
    /\ comps[2].run = 0

\* C15: when instances of the same (src, token) pair are mounted together
\* and the effect of each has run before any fetch of the pair has settled,
\* at most one fetch has been issued for the pair.
C15_ConcurrentMountsShareOneFetch ==
    \A i, j \in Comps :
        LET key == cacheKeyOf(comps[i].src, comps[i].token)
        IN  (/\ i # j
             /\ Resolving(i)
             /\ Resolving(j)
             /\ cacheKeyOf(comps[j].src, comps[j].token) = key
             /\ \A q \in RunsOf(key) : runs[q].state = "pending")
                => Cardinality(RunsOf(key)) <= 1

\* the step ends run r in the catch
Fails(r) == runs[r].state = "pending" /\ runs'[r].state = "failed"

\* the step runs the effects of instance i, which has a token
Resolves(i) ==
    /\ comps[i].mounted
    /\ comps[i].dirty
    /\ ~isFalsy(comps[i].token)
    /\ comps'[i].mounted
    /\ ~comps'[i].dirty

\* C16: a fetch that fails (rejected, not ok, or blob not read) makes the
\* instance that is waiting for it show the raw src of the fetch, and adds
\* no entry to imageCache and creates no object URL; the entries of the
\* cache are all of fetches that ended well; so a resolution of a pair
\* whose fetches all failed starts a fetch of the pair again.
C16_FailureFallsBackAndIsNotCached ==
    [][/\ \A r \in 1..Len(runs) :
              Fails(r) =>
                  /\ imageCache' = imageCache
                  /\ created' = created
                  /\ ~runs[r].cancelled =>
                         comps'[runs[r].comp].resolvedSrc = runs[r].src
       /\ \A key \in DOMAIN imageCache' :
              \E q \in RunsOf(key)' : runs'[q].state = "ok"
       /\ \A i \in Comps :
              LET key == cacheKeyOf(comps[i].src, comps[i].token)
              IN  (/\ Resolves(i)
                   /\ RunsOf(key) # {}
                   /\ \A q \in RunsOf(key) : runs[q].state = "failed")
                      => /\ Len(runs') = Len(runs) + 1
                         /\ runs'[Len(runs')].cacheKey = key
                         /\ runs'[Len(runs')].state = "pending"]_vars

\* the fetch of instance 1 failed and it shows the raw src; instance 2
\* resolved the same pair afterwards, and fetches
C16_Witness ==
    /\ Len(runs) = 2
    /\ runs[1].state = "failed"
    /\ runs[2].cacheKey = runs[1].cacheKey
    /\ 1 \in runs[2].settled
    /\ runs[2].comp = 2
    /\ Resolving(1)
    /\ comps[1].run = 1
    /\ comps[1].resolvedSrc = comps[1].src
    /\ ~cacheHas(imageCache, runs[1].cacheKey)

\* the token is undefined, null or the empty string
TokenAbsent(token) ==
    token \in {UndefinedToken, NullToken, StringToken(<<>>)}

\* C17: no fetch is ever issued for a token that is undefined, null or
\* empty; and an instance whose token is absent, once the effects of its
\* render have run, shows its current src and waits for no fetch, whatever
\* its props were before.
C17_AbsentTokenPassesSrcThrough ==
    /\ \A r \in 1..Len(runs) : ~TokenAbsent(runs[r].token)
    /\ \A i \in Comps :
           (/\ comps[i].mounted
            /\ ~comps[i].dirty
            /\ TokenAbsent(comps[i].token))
               => /\ comps[i].resolvedSrc = comps[i].src
                  /\ comps[i].run = 0

\* instance 1 fetched "a" with a token and the fetch ended well; its props
\* are now "b" without token, and it shows "b"
C17_Witness ==
    /\ Len(runs) = 1
    /\ runs[1].comp = 1
    /\ runs[1].src = <<"a">>
    /\ runs[1].state = "ok"
    /\ comps[1].mounted
    /\ ~comps[1].dirty
    /\ comps[1].token = NullToken
    /\ comps[1].src = <<"b">>
    /\ comps[1].resolvedSrc = <<"b">>
    /\ ~comps[2].mounted

\* C18: an instance with a token, the effects of its render having run,
\* does not show its raw src unless a fetch of its current (src, token) has
\* failed.
C18_TokenPresentHidesRawSrc ==
    \A i \in Comps :
        (Resolving(i) /\ comps[i].resolvedSrc = comps[i].src)
            => \E q \in RunsOf(cacheKeyOf(comps[i].src, comps[i].token)) :
                   runs[q].state = "failed"

\* a mounted instance shows the object URL, or a cache entry holds it
Referenced(objectUrl) ==
    \/ \E i \in Comps :
           comps[i].mounted /\ comps[i].resolvedSrc = objectUrl
    \/ \E key \in DOMAIN imageCache : imageCache[key] = objectUrl

\* C19: every object URL that was created and that no mounted instance
\* shows and no cache entry holds is revoked at some later time.
C19_UnreferencedIsRevoked ==
    \A n \in 1..MaxFetches :
        (n <= created /\ ~Referenced(ObjectUrl(n)))
            ~> (ObjectUrl(n) \in revoked)


\* ------------------------------------------------------------------------
\* Properties of the comment and essay routes
\* ------------------------------------------------------------------------

\* a request was handled in this step
Handled == Waiting /\ ~Waiting'

\* the post of this id belongs to a tenant other than the one slug names
ForeignPost(slug, postId) ==
    \E p \in photoPost :
        /\ p.id = postId
        /\ \A a \in appInstance : a.slug = slug => p.appInstanceId # a.id

\* the request names a post, a comment or an essay of another tenant
TargetsForeign(r) ==
    \/ ForeignPost(r.slug, r.postId)
    \/ /\ r.route \in {"deleteComment", "reportComment"}
       /\ \E c \in photoComment :
              c.id = r.textId /\ ForeignPost(r.slug, c.postId)
    \/ /\ r.route \in {"deleteEssay", "reportEssay"}
       /\ \E e \in photoEssay :
              e.id = r.textId /\ ForeignPost(r.slug, e.postId)

\* C21: a request through slug S that names a post, a comment or an essay
\* of another tenant is answered as not found (or fails before that, 400
\* or 500), returns no row and leaves the comments, essays and reports as
\* they were.
C21_TextsStayInTheirTenant ==
    [][(Handled /\ TargetsForeign(textReq'))
           => /\ textRes'.status \in {400, 404, 500}
              /\ textRes'.rows = {}
              /\ UNCHANGED <<photoComment, photoEssay, photoCommentReport,
                             photoEssayReport>>]_vars

\* the same for the routes that look the post up under the tenant
C21_CheckedRoutes ==
    [][(/\ Handled
        /\ TargetsForeign(textReq')
        /\ textReq'.route \in {"listComments", "createComment",
                               "createEssay"})
           => /\ textRes'.status \in {400, 404, 500}
              /\ textRes'.rows = {}
              /\ UNCHANGED <<photoComment, photoEssay, photoCommentReport,
                             photoEssayReport>>]_vars

\* the caller of request r may delete this row under the path of r: they
\* wrote it or are ADMIN or EDITOR, and it hangs on the post of the path
Deletable(row, r) ==
    /\ row.userId = r.authUser.id \/ r.authUser.role \in {"ADMIN", "EDITOR"}
    /\ row.postId = r.postId

\* request r was a delete on this table, answered as the claim says: 204
\* with the row removed only if the row was deletable, else 403 or 404
\* (500 if the store failed) with the table as it was
DeleteAnswered(r, response, before, after) ==
    LET target == {row \in before : row.id = r.textId}
    IN  IF response.status = 204
        THEN /\ target # {}
             /\ \A row \in target : Deletable(row, r)
             /\ after = before \ target
        ELSE /\ after = before
             /\ (\A row \in target : ~Deletable(row, r))
                    => response.status \in {403, 404, 500}

\* C29: a comment or an essay (short text) is deleted, with 204, only when
\* the caller is its author or ADMIN or EDITOR and its postId is the one in
\* the path; otherwise the answer is 403 or 404 (500 when the store fails)
\* and the record stays as it was.
C29_DeleteOnlyByAuthorOrStaff ==
    [][/\ (Handled /\ textReq'.route = "deleteComment")
           => DeleteAnswered(textReq', textRes', photoComment, photoComment')
       /\ (Handled /\ textReq'.route = "deleteEssay")
           => DeleteAnswered(textReq', textRes', photoEssay, photoEssay')
       /\ (Handled /\ textReq'.route \in {"deleteComment", "deleteEssay"})
           => textRes'.status \in {204, 403, 404, 500}]_vars

\* an author without a role deleted their essay, and the row is gone
C29_Witness ==
    /\ textReq.route = "deleteEssay"
    /\ textReq.authUser.role = "USER"
    /\ textRes.status = 204
    /\ \A e \in photoEssay : e.id # textReq.textId

\* ------------------------------------------------------------------------
\* Properties of PATCH and DELETE /posts/:id
\* ------------------------------------------------------------------------

\* what pickAccessibleAppInstance returns to any caller under this slug:
\* no app means not allowed, and an ADMIN or EDITOR is allowed in every
\* app that is returned
ResultsAreConsistent(slug) ==
    \A authUser \in Anyone :
        LET result == pickAccessibleAppInstance(slug, authUser)
        IN  /\ result.app = NullApp => ~result.allowed
            /\ (authUser.role \in {"ADMIN", "EDITOR"} /\ result.app # NullApp)
                   => result.allowed

\* the handler turned the request away at its test of the app
TurnedAway(response) ==
    response.status = 404 /\ response.message = "App not found"

\* C26: the results of the access check are consistent (no app, not
\* allowed; ADMIN or EDITOR with an app, allowed), and so PATCH and DELETE
\* /posts/:id, which test the app alone, turn away exactly the requests
\* that the test of app and allowed turns away.
C26_AppTestEqualsFullTest ==
    [][/\ Handled => ResultsAreConsistent(textReq'.slug)
       /\ (Handled /\ textReq'.route \in {"patchPost", "deletePost"}
               /\ textRes'.status \notin {400, 500})
              => LET result == pickAccessibleAppInstance(textReq'.slug,
                                                         textReq'.authUser)
                 IN  TurnedAway(textRes')
                         <=> (result.app = NullApp \/ ~result.allowed)]_vars

\* an EDITOR who is in no group deleted the post of a tenant reserved to
\* group 1
C26_Witness ==
    /\ textReq.route = "deletePost"
    /\ textReq.authUser.role = "EDITOR"
    /\ findManyUserGroupIds(textReq.authUser.id) = {}
    /\ \E a \in appInstance :
           /\ a.slug = textReq.slug
           /\ allowedGroupIdsOf(a.config) = {1}
           /\ \A p \in photoPost : p.appInstanceId # a.id
    /\ textRes.status = 204

\* ------------------------------------------------------------------------
\* GET /image/:mediaId while the uploads directory changes
\* ------------------------------------------------------------------------

\* the response is written in this step
Answers == pc = "deliver" /\ pc' = "done"

\* C22: the route never answers 200 for a file that is no longer in
\* storage when the answer is written: a file removed after the existence
\* check ends in 404, under direct streaming and under delegation.
C22_RemovedFileIsNotFound ==
    [][(Answers /\ res'.status = 200)
           => ServedPathOf(res', env) \in storage]_vars

\* the same under direct streaming alone
C22_Direct ==
    [][(Answers /\ res'.status = 200 /\ env.UPLOADS_SERVE_STRATEGY = "direct")
           => ServedPathOf(res', env) \in storage]_vars

\* C27: once both are chosen, fileToServe names the file at absPath,
\* whatever other processes did to the variant file between the two probes.
C27_OneFileIsChosen ==
    pc \in {"probe3", "deliver"}
        => pathResolve(UploadsRootDir, fileToServe) = absPath

\* ------------------------------------------------------------------------
\* The headers of the delivery
\* ------------------------------------------------------------------------

\* the route answered with a message of its own: a denial, a lookup or a
\* file that was not found, an invalid name, or a failure
AnsweredWithMessage == pc \in {"done", "failed"} /\ res.message # ""

\* C23: a response that delivers or delegates the image carries
\* Cache-Control: private, max-age=300, and a response that denies or
\* fails before the file is resolved carries no Cache-Control at all.
C23_CacheControlOnlyOnDelivery ==
    /\ (pc = "done" /\ Delivers) => res.cacheControl = "private, max-age=300"
    /\ AnsweredWithMessage => res.cacheControl = ""

\* an image was delegated to the proxy
C23_Witness ==
    /\ pc = "done"
    /\ res.status = 200
    /\ res.accelRedirect # NullString
    /\ res.cacheControl = "private, max-age=300"

\* the prefix as configured, with a slash put in front and behind where
\* there is none
SlashedPrefix ==
    LET raw == env.UPLOADS_ACCEL_REDIRECT_PREFIX
    IN  (IF raw[1] = sep THEN <<>> ELSE <<sep>>)
            \o raw
            \o (IF raw[Len(raw)] = sep THEN <<>> ELSE <<sep>>)

\* the name, relative to the uploads root, of the variant the route looked
\* for if that file is there, else of the canonical file
ChosenName ==
    IF existsSync(pathResolve(UploadsRootDir, requestedFilename))
    THEN requestedFilename
    ELSE safeFilename

\* C24: under delegation a success is 200 with no body and X-Accel-Redirect
\* made of the prefix, with a slash at both ends, and the name of the file
\* chosen to serve; no file is sent by the route itself.
C24_DelegatedSuccess ==
    (pc = "done" /\ env.UPLOADS_SERVE_STRATEGY = "accel" /\ Delivers)
        => /\ res.status = 200
           /\ res.message = ""
           /\ res.sentFile = NullString
           /\ res.accelRedirect = SlashedPrefix \o ChosenName

\* the thumbnail was delegated under a prefix configured without slashes
C24_Witness ==
    /\ pc = "done"
    /\ env.UPLOADS_SERVE_STRATEGY = "accel"
    /\ env.UPLOADS_ACCEL_REDIRECT_PREFIX = <<"i">>
    /\ req.size = "thumbnail"
    /\ res.status = 200
    /\ res.accelRedirect = <<sep, "i", sep, "p", "-thumb", ".", "p">>

\* ------------------------------------------------------------------------
\* The key of the image cache
\* ------------------------------------------------------------------------

\* the object URLs made so far
ObjectUrls == {runs[r].objectUrl : r \in {q \in 1..Len(runs) :
                                             runs[q].state = "ok"}}

\* C25: an instance whose effects have run shows an object URL only if it
\* was fetched with the src and the token of that instance: two different
\* (src, token) pairs never share a cache entry.
C25_HandleIsOfItsPair ==
    \A i \in Comps :
        (/\ comps[i].mounted
         /\ ~comps[i].dirty
         /\ comps[i].resolvedSrc \in ObjectUrls)
            => \E r \in 1..Len(runs) :
                   /\ runs[r].state = "ok"
                   /\ runs[r].objectUrl = comps[i].resolvedSrc
                   /\ runs[r].src = comps[i].src
                   /\ runs[r].token = comps[i].token

\* no src and no token of a mounted instance holds the separator of the key
NoSeparator ==
    \A i \in Comps :
        comps[i].mounted
            => /\ Occurrences(comps[i].src, <<"|">>) = {}
               /\ Occurrences(comps[i].token.value, <<"|">>) = {}

\* the same for locators and credentials that do not hold the separator
C25_WithoutSeparator == NoSeparator => C25_HandleIsOfItsPair

\* ------------------------------------------------------------------------
\* Responses that arrive late
\* ------------------------------------------------------------------------

\* run r settles in this step
Settles(r) == runs[r].state = "pending" /\ runs'[r].state # "pending"

\* the instance of run r is gone, or is rendered with another src or token
Outdated(r) ==
    LET c == comps[runs[r].comp]
    IN  ~c.mounted \/ c.src # runs[r].src \/ c.token # runs[r].token

\* a late response leaves the displayed source alone
LateResponseIsIgnored ==
    \A r \in 1..Len(runs) :
        (Settles(r) /\ Outdated(r))
            => comps'[runs[r].comp].resolvedSrc
                   = comps[runs[r].comp].resolvedSrc

\* every fetch has settled with success and no effect is pending
AllSettled ==
    /\ \A r \in 1..Len(runs) : runs[r].state = "ok"
    /\ \A i \in Comps : ~comps[i].dirty

\* every instance with a token shows an object URL fetched for its pair
ShowsCurrentPair ==
    \A i \in Comps :
        (comps[i].mounted /\ ~TokenAbsent(comps[i].token))
            => \E r \in 1..Len(runs) :
                   /\ runs[r].state = "ok"
                   /\ runs[r].src = comps[i].src
                   /\ runs[r].token = comps[i].token
                   /\ runs[r].objectUrl = comps[i].resolvedSrc

\* C28: a fetch of an earlier (src, token) pair that settles after the props
\* changed or after the unmount never changes the displayed source, and
\* once every fetch has settled with success the displayed source is the
\* object URL of the current pair.
C28_LateResponsesChangeNothing ==
    [][/\ LateResponseIsIgnored
       /\ AllSettled' => ShowsCurrentPair']_vars

\* the second half alone
C28_SettledShowsCurrentPair == AllSettled => ShowsCurrentPair

\* the first half once the effects of the new render have run
C28_AfterEffects ==
    [][\A r \in 1..Len(runs) :
           (Settles(r) /\ Outdated(r) /\ ~comps[runs[r].comp].dirty)
               => comps'[runs[r].comp].resolvedSrc
                      = comps[runs[r].comp].resolvedSrc]_vars

\* ------------------------------------------------------------------------
\* Overlapping requests of the photo page
\* ------------------------------------------------------------------------

\* every call of listPosts has settled with success, and the effect of the
\* last render has run
AllListed ==
    /\ listRequests # <<>>
    /\ \A r \in 1..Len(listRequests) : listRequests[r].state = "ok"
    /\ ~gallery.fetchDue

\* the posts and the meta on the screen are those of the current page
ShowsCurrentPage ==
    /\ gallery.posts = <<gallery.page>>
    /\ gallery.meta.page = gallery.page
    /\ ~gallery.isLoading

\* C30: once every listPosts request has settled, the posts and the meta
\* shown are those returned for the current page and isLoading is false,
\* in whatever order the responses of overlapping calls arrived.
C30_SettledShowsCurrentPage == AllListed => ShowsCurrentPage

\* the responses arrived in the order of their calls
ArrivedInOrder ==
    \A r, q \in 1..Len(listRequests) :
        r < q => listRequests[r].order < listRequests[q].order

\* the same when the responses arrive in the order of their calls
C30_InOrder == (AllListed /\ ArrivedInOrder) => ShowsCurrentPage
====
